---------------------------- MODULE Spec2Model ----------------------------
(***************************************************************************)
(* A model of the bootstrap utility (package main, and s3client.Download): *)
(* the locator parser, the download / persist / execute / shutdown flow of *)
(* main, and the interrupt listener goroutine running beside it.           *)
(*                                                                         *)
(* Strings are sequences of one-character strings, so that the parsing and *)
(* path functions are computed on the characters as the Go code does.      *)
(***************************************************************************)
EXTENDS Integers, Sequences, FiniteSets, TLC

(***************************************************************************)
(* Bounds of the model.                                                    *)
(***************************************************************************)
\* longest tail appended to a prefix when locator strings are enumerated
MaxBody == 4
\* largest delay (in time units) shutdownSystem is called with on its own
MaxDelay == 6
\* number of interrupt signals the environment delivers in one run
MaxSignals == 2
\* length of the fetched object's byte stream
MaxBytes == 2

(***************************************************************************)
(* Program constants.                                                      *)
(***************************************************************************)
\* time.Duration(20)*time.Second, in seconds
PostExecDelay == 20
\* the mode of a file made by os.Create (0666 before umask), as a tag
ModeCreate == 666
\* the mode of a file made by os.CreateTemp
ModeTemp == 600
\* targetFile.Chmod(0755)
ModeExec == 755

(***************************************************************************)
(* strings package                                                         *)
(***************************************************************************)
Lower == <<"a","b","c","d","e","f","g","h","i","j","k","l","m",
           "n","o","p","q","r","s","t","u","v","w","x","y","z">>
Upper == <<"A","B","C","D","E","F","G","H","I","J","K","L","M",
           "N","O","P","Q","R","S","T","U","V","W","X","Y","Z">>
Digits == {"0","1","2","3","4","5","6","7","8","9"}

LowerSet == {"a","b","c","d","e","f","g","h","i","j","k","l","m",
             "n","o","p","q","r","s","t","u","v","w","x","y","z"}
UpperSet == {"A","B","C","D","E","F","G","H","I","J","K","L","M",
             "N","O","P","Q","R","S","T","U","V","W","X","Y","Z"}

\* the one element of a singleton set; { F(x) : x \in {e} } evaluates e once
Only(S) == CHOOSE x \in S : TRUE

Range(s) == { s[i] : i \in 1..Len(s) }
IsLetter(c) == c \in LowerSet \/ c \in UpperSet

ToLowerChar(c) ==
    IF c \in UpperSet
    THEN Lower[CHOOSE i \in 1..Len(Upper) : Upper[i] = c]
    ELSE c
ToLower(s) == [ i \in 1..Len(s) |-> ToLowerChar(s[i]) ]

\* strings.Index for a one-character separator: 0 stands for Go's -1
Index(s, c) ==
    LET RECURSIVE scan(_)
        scan(i) == IF i > Len(s) THEN 0 ELSE IF s[i] = c THEN i ELSE scan(i + 1)
    IN scan(1)
LastIndex(s, c) ==
    LET RECURSIVE scan(_)
        scan(i) == IF i = 0 THEN 0 ELSE IF s[i] = c THEN i ELSE scan(i - 1)
    IN scan(Len(s))
Count(s, c) == Cardinality({ i \in 1..Len(s) : s[i] = c })
HasPrefix(s, p) == Len(s) >= Len(p) /\ \A i \in 1..Len(p) : s[i] = p[i]
HasSuffix(s, p) == Len(s) >= Len(p) /\ \A i \in 1..Len(p) : s[Len(s) - Len(p) + i] = p[i]
Drop(s, n) == SubSeq(s, n + 1, Len(s))
Take(s, n) == SubSeq(s, 1, n)
\* strings.Cut(s, c): the text before and after the first c
CutBefore(s, c) == Only({ IF i = 0 THEN s ELSE Take(s, i - 1) : i \in {Index(s, c)} })
CutAfter(s, c) == Only({ IF i = 0 THEN <<>> ELSE Drop(s, i) : i \in {Index(s, c)} })

TrimPrefixAll(s, p) ==
    LET RECURSIVE strip(_)
        strip(t) == IF Len(p) > 0 /\ HasPrefix(t, p) THEN strip(Drop(t, Len(p))) ELSE t
    IN strip(s)
\* strings.TrimPrefix removes the prefix once
TrimPrefix(s, p) == IF HasPrefix(s, p) THEN Drop(s, Len(p)) ELSE s

(***************************************************************************)
(* net/url: url.Parse, as parseS3URL uses it.  The characters '%', '@',    *)
(* '[' and control characters are outside the alphabet of the model.       *)
(***************************************************************************)
NoErr == "nil"

\* getScheme: the index of the ':' ending the scheme, 0 when there is no
\* scheme, -1 for "missing protocol scheme"
SchemeEnd(raw) ==
    LET RECURSIVE scan(_)
        scan(i) ==
            IF i > Len(raw) THEN 0
            ELSE IF IsLetter(raw[i]) THEN scan(i + 1)
            ELSE IF raw[i] \in Digits \cup {"+", "-", "."}
                 THEN (IF i = 1 THEN 0 ELSE scan(i + 1))
            ELSE IF raw[i] = ":" THEN (IF i = 1 THEN -1 ELSE i)
            ELSE 0
    IN scan(1)

validOptionalPort(port) ==
    \/ port = <<>>
    \/ /\ port[1] = ":"
       /\ \A i \in 2..Len(port) : port[i] \in Digits

\* the characters of the model's alphabet that unescape(host, encodeHost) rejects
InvalidHostChars == {" ", "/", "?", "#"}

\* parseHost, for a host that is not an IP literal
parseHostErr(host) ==
    IF \E i \in {LastIndex(host, ":")} : i # 0 /\ ~validOptionalPort(Drop(host, i - 1))
    THEN "invalid port after host"
    ELSE IF \E i \in 1..Len(host) : host[i] \in InvalidHostChars
    THEN "invalid character in host name"
    ELSE NoErr

EmptyURL == [err |-> NoErr, Scheme |-> <<>>, Opaque |-> <<>>, Host |-> <<>>,
             Path |-> <<>>, RawQuery |-> <<>>, Fragment |-> <<>>]
UrlError(msg) == [EmptyURL EXCEPT !.err = msg]

\* parse: the authority "//host" and the path after it
parseAuthorityAndPath(base, auth0, i) ==
    Only({ IF parseHostErr(auth) # NoErr
           THEN UrlError(parseHostErr(auth))
           ELSE [base EXCEPT !.Host = auth,
                             !.Path = IF i = 0 THEN <<>> ELSE Drop(auth0, i - 1)]
           : auth \in {IF i = 0 THEN auth0 ELSE Take(auth0, i - 1)} })

\* parse: what follows the scheme and precedes the query
parseRest(base, rest) ==
    IF ~HasPrefix(rest, <<"/">>) /\ base.Scheme # <<>>
    THEN [base EXCEPT !.Opaque = rest]
    ELSE IF ~HasPrefix(rest, <<"/">>) /\ ":" \in Range(CutBefore(rest, "/"))
    THEN UrlError("first path segment in URL cannot contain colon")
    ELSE IF (base.Scheme # <<>> \/ ~HasPrefix(rest, <<"/","/","/">>))
            /\ HasPrefix(rest, <<"/","/">>)
    THEN Only({ parseAuthorityAndPath(base, auth0, Index(auth0, "/"))
                : auth0 \in {Drop(rest, 2)} })
    ELSE [base EXCEPT !.Path = rest]

\* parse: split off the query
parseQuery(scheme, rest0) ==
    IF HasSuffix(rest0, <<"?">>) /\ Count(rest0, "?") = 1
    THEN Only({ parseRest(base, rest)
                : base \in {[EmptyURL EXCEPT !.Scheme = scheme]},
                  rest \in {Take(rest0, Len(rest0) - 1)} })
    ELSE Only({ parseRest(base, rest)
                : base \in {[EmptyURL EXCEPT !.Scheme = scheme,
                                             !.RawQuery = CutAfter(rest0, "?")]},
                  rest \in {CutBefore(rest0, "?")} })

\* parse(u, false): u is the text before the first '#'
urlparse(u) ==
    IF u = <<"*">> THEN [EmptyURL EXCEPT !.Path = u]
    ELSE Only({ IF e = -1 THEN UrlError("missing protocol scheme")
                ELSE Only({ parseQuery(scheme, rest0)
                            : scheme \in {ToLower(Take(u, IF e = 0 THEN 0 ELSE e - 1))},
                              rest0 \in {Drop(u, e)} })
                : e \in {SchemeEnd(u)} })

\* url.Parse: cut off the fragment, then parse
UrlParse(raw) ==
    Only({ IF u.err # NoErr THEN u ELSE [u EXCEPT !.Fragment = CutAfter(raw, "#")]
           : u \in { urlparse(head) : head \in {CutBefore(raw, "#")} } })

(***************************************************************************)
(* parseS3URL                                                              *)
(***************************************************************************)
S3 == <<"s","3">>
Slash == <<"/">>

ErrInvalidURL == "invalid S3 URL"
ErrNotS3 == "not an S3 URL (should start with s3://)"

\* the key of a parsed path: strings.TrimPrefix(u.Path, "/")
StripAllLeadingSlashes(path) == TrimPrefixAll(path, Slash)
KeyOfPath(path) == TrimPrefix(path, Slash)

parseS3URLResultKeepsParts(u) ==
    IF u.err # NoErr
    THEN [bucket |-> <<>>, key |-> <<>>, err |-> ErrInvalidURL]
    ELSE IF u.Scheme # S3
    THEN [bucket |-> u.Host, key |-> KeyOfPath(u.Path), err |-> ErrNotS3]
    ELSE [bucket |-> u.Host, key |-> KeyOfPath(u.Path), err |-> NoErr]
parseS3URLResult(u) ==
    IF u.err # NoErr
    THEN [bucket |-> <<>>, key |-> <<>>, err |-> ErrInvalidURL]
    ELSE IF u.Scheme # S3
    THEN [bucket |-> <<>>, key |-> <<>>, err |-> ErrNotS3]
    ELSE [bucket |-> u.Host, key |-> KeyOfPath(u.Path), err |-> NoErr]
parseS3URL(s3URL) == Only({ parseS3URLResult(u) : u \in {UrlParse(s3URL)} })

(***************************************************************************)
(* path/filepath, for slash-separated paths without "." or ".." elements   *)
(***************************************************************************)
Dot == <<".">>

TrimTrailingSlashes(path) ==
    LET RECURSIVE strip(_)
        strip(t) == IF Len(t) > 0 /\ t[Len(t)] = "/" THEN strip(Take(t, Len(t) - 1)) ELSE t
    IN strip(path)

\* filepath.Base
Base(path) ==
    IF path = <<>> THEN Dot
    ELSE Only({ IF t = <<>> THEN Slash ELSE Drop(t, LastIndex(t, "/"))
                : t \in {TrimTrailingSlashes(path)} })

\* filepath.Dir
Dir(path) ==
    Only({ IF i = 0 THEN Dot
           ELSE Only({ IF d = <<>> THEN Slash ELSE d
                       : d \in {TrimTrailingSlashes(Take(path, i))} })
           : i \in {LastIndex(path, "/")} })

\* filepath.Ext: the suffix of the last element from its last dot
Ext(path) ==
    Only({ Only({ IF i = 0 THEN <<>> ELSE Drop(b, i - 1) : i \in {LastIndex(b, ".")} })
           : b \in {Drop(path, LastIndex(path, "/"))} })

\* the directories os.MkdirAll(dir) makes sure exist: dir and its ancestors
Ancestors(dir) ==
    { Take(dir, i) : i \in { j \in 1..Len(dir) : j = Len(dir) \/ dir[j + 1] = "/" } }

(***************************************************************************)
(* The inputs of one run of main.                                          *)
(***************************************************************************)
TempDir == <<"/","t">>
WorkDir == <<"w">>
\* --save values: none, a file in an existing directory, a file below
\* directories that do not exist yet.  Both name a directory, so that
\* exec.Command runs the path itself and does not look the name up in PATH.
SavePaths == { <<>>, <<"w","/","f">>, <<"n","/","d","/","f",".","p","y">> }
PostExecValues == { "", "shutdown", "reboot" }
GoodURL == <<"s","3",":","/","/","b","/","k">>
ScriptURL == <<"s","3",":","/","/","b","/","p","/","k",".","B","A","T">>
HttpURL == <<"h","t","t","p",":","/","/","b","/","k">>
ArgLists == { <<>>, <<GoodURL>>, <<ScriptURL>>, <<HttpURL>>, <<GoodURL, ScriptURL>> }
\* the object's bytes: 1, 2, ..., n
Objects == { [ i \in 1..n |-> i ] : n \in 0..MaxBytes }
\* the name os.CreateTemp("", "bootstrap-*-" + base) picks ("1" is the random part)
TempName(base) ==
    TempDir \o Slash \o <<"b","o","o","t","s","t","r","a","p","-">> \o <<"1">> \o <<"-">> \o base

VARIABLES
    goos,          \* runtime.GOOS
    saveFlag, execFlag, postExecFlag, debugFlag, args,
    object,        \* the bytes of the object the fetch yields
    pc,            \* the main goroutine's position
    lpc,           \* the signal goroutine's position
    sigChan,       \* number of signals buffered in sigChan (capacity 1)
    nSignals,      \* interrupts delivered so far
    cancelled,     \* cancel() of the top-level context was called
    tmpPath,       \* the shared temp file path holder
    lread,         \* the value of tmpPath the signal goroutine read
    bucket, key,
    result,        \* the fetch stream: "none", "open", "closed"
    closes,        \* how many times result.Close() ran
    targetPath,
    targetFile,    \* the file handle: "none", "open", "closed"
    copied,        \* bytes io.Copy has moved so far
    dirs,          \* the directories on disk
    files,         \* the files on disk: records [path, content, mode], one per path
    defers,        \* main's deferred calls, last registered first
    exitStatus,    \* the local of the exec branch
    exited,        \* the process has terminated
    exitCode,      \* with this status
    stdout,        \* lines written to standard output
    log,           \* the operations the main goroutine has invoked, in order
    child,         \* executeFile's command: [state, argv, found, err]; found: the file
                   \* was there, and executable, when the command was started
    sd,            \* the current shutdownSystem call: [state, delay, elapsed, debug, err]
    cmdRuns,       \* how many times the shutdown command was run
    pIn, pOut      \* a call of parseS3URL on its own: argument and result

inputs == <<goos, saveFlag, execFlag, postExecFlag, debugFlag, args, object>>
listener == <<lpc, sigChan, nSignals, cancelled, lread>>
disk == <<dirs, files>>
flow == <<pc, tmpPath, bucket, key, result, closes, targetPath, targetFile, copied, defers,
          exitStatus, stdout, log, child>>
shutdown == <<sd, cmdRuns>>
term == <<exited, exitCode>>
parsing == <<pIn, pOut>>
vars == <<inputs, listener, disk, flow, shutdown, term, parsing>>

NoChild == [state |-> "none", argv |-> <<>>, found |-> FALSE, err |-> FALSE]
NoShutdown == [state |-> "idle", delay |-> 0, elapsed |-> 0, debug |-> FALSE, err |-> FALSE]
NoParse == [bucket |-> <<>>, key |-> <<>>, err |-> "none"]

InitialDirs == {Dot, TempDir, WorkDir}

InitMain ==
    /\ pc = "start" /\ lpc = "off" /\ sigChan = 0 /\ nSignals = 0
    /\ cancelled = FALSE /\ tmpPath = <<>> /\ lread = <<>>
    /\ bucket = <<>> /\ key = <<>>
    /\ result = "none" /\ closes = 0
    /\ targetPath = <<>> /\ targetFile = "none"
    /\ dirs = InitialDirs /\ files = {}
    /\ copied = 0
    /\ defers = <<>> /\ exitStatus = 0
    /\ exited = FALSE /\ exitCode = 0
    /\ stdout = <<>> /\ log = <<>>
    /\ child = NoChild /\ sd = NoShutdown /\ cmdRuns = 0

Init ==
    /\ goos \in {"linux", "windows"}
    /\ saveFlag \in SavePaths
    /\ execFlag \in BOOLEAN
    /\ postExecFlag \in PostExecValues
    /\ debugFlag \in BOOLEAN
    /\ args \in ArgLists
    /\ object \in Objects
    /\ InitMain
    /\ pIn = <<>> /\ pOut = NoParse


(***************************************************************************)
(* Helpers of the actions.                                                 *)
(***************************************************************************)
\* os.Exit(code): the process ends at once; deferred calls do not run
Exit(code) == exited' = TRUE /\ exitCode' = code
Running == ~exited
Did(op) == log' = Append(log, op)
Exists(path) == \E f \in files : f.path = path
FileAt(path) == CHOOSE f \in files : f.path = path
\* os.Remove(path); a missing file is an error the callers ignore
Removed(path) == { f \in files : f.path # path }

(***************************************************************************)
(* main, lines 104-126: the context, signal.Notify, the signal goroutine   *)
(***************************************************************************)
\* a variant that goes on without signal.Notify and the goroutine
SetupWithoutHandler ==
    /\ Running /\ pc = "start"
    /\ pc' = "flags" /\ lpc' = lpc
    /\ defers' = <<"cancel">>
    /\ UNCHANGED <<inputs, sigChan, nSignals, cancelled, lread, disk, tmpPath, bucket, key,
                   result, closes, targetPath, targetFile, copied, exitStatus, stdout, log,
                   child, shutdown, term, parsing>>
Setup ==
    /\ Running /\ pc = "start"
    /\ pc' = "flags" /\ lpc' = "wait"
    /\ defers' = <<"cancel">>
    /\ UNCHANGED <<inputs, sigChan, nSignals, cancelled, lread, disk, tmpPath, bucket, key,
                   result, closes, targetPath, targetFile, copied, exitStatus, stdout, log,
                   child, shutdown, term, parsing>>

(***************************************************************************)
(* main, lines 128-148: the flags and their validation                     *)
(***************************************************************************)
UsageErrorExecUnchecked(postExec, exec, nargs) ==
    IF postExec # "" /\ postExec # "shutdown" THEN "invalid --post-exec value"
    ELSE IF nargs # 1 THEN "usage"
    ELSE NoErr
UsageError(postExec, exec, nargs) ==
    IF postExec # "" /\ ~exec THEN "--post-exec can only be used with --exec"
    ELSE IF postExec # "" /\ postExec # "shutdown" THEN "invalid --post-exec value"
    ELSE IF nargs # 1 THEN "usage"
    ELSE NoErr

ParseFlags ==
    /\ Running /\ pc = "flags"
    /\ IF UsageError(postExecFlag, execFlag, Len(args)) # NoErr
       THEN Exit(1) /\ pc' = pc
       ELSE pc' = "parse" /\ UNCHANGED term
    /\ UNCHANGED <<inputs, listener, disk, tmpPath, bucket, key, result, closes, targetPath,
                   targetFile, copied, defers, exitStatus, stdout, log, child, shutdown, parsing>>

(***************************************************************************)
(* main, lines 150-154                                                     *)
(***************************************************************************)
ParseURL ==
    /\ Running /\ pc = "parse"
    /\ \E r \in {parseS3URL(args[1])} :
          IF r.err # NoErr
          THEN Exit(1) /\ UNCHANGED <<pc, bucket, key>>
          ELSE pc' = "config" /\ bucket' = r.bucket /\ key' = r.key /\ UNCHANGED term
    /\ UNCHANGED <<inputs, listener, disk, tmpPath, result, closes, targetPath,
                   targetFile, copied, defers, exitStatus, stdout, log, child, shutdown, parsing>>

(***************************************************************************)
(* main, lines 156-162: config.LoadDefaultConfig                           *)
(***************************************************************************)
LoadConfig ==
    /\ Running /\ pc = "config"
    /\ Did("config")
    /\ \E ok \in BOOLEAN :
          IF ok THEN pc' = "download" /\ UNCHANGED term
                ELSE Exit(1) /\ pc' = pc
    /\ UNCHANGED <<inputs, listener, disk, tmpPath, bucket, key, result, closes, targetPath,
                   targetFile, copied, defers, exitStatus, stdout, child, shutdown, parsing>>

(***************************************************************************)
(* s3client.Download: the stream on success, no stream and an error when   *)
(* GetObject fails                                                         *)
(***************************************************************************)
DownloadKeepsStream(apiErr) == [stream |-> "open", err |-> apiErr]
Download(apiErr) ==
    IF apiErr THEN [stream |-> "none", err |-> TRUE]
              ELSE [stream |-> "open", err |-> FALSE]

(***************************************************************************)
(* main, lines 164-172: the fetch, bounded by the download context; a      *)
(* request under a cancelled context fails                                 *)
(***************************************************************************)
Fetch ==
    /\ Running /\ pc = "download"
    /\ Did("fetch")
    /\ \E apiErr \in (IF cancelled THEN {TRUE} ELSE BOOLEAN) :
          LET r == Download(apiErr)
          IN /\ result' = r.stream
             /\ IF r.err
                THEN Exit(1) /\ pc' = pc /\ defers' = <<"cancelDownload">> \o defers
                ELSE /\ pc' = IF saveFlag # <<>> THEN "mkdir" ELSE "createtemp"
                     /\ defers' = <<"result.Close", "cancelDownload">> \o defers
                     /\ UNCHANGED term
    /\ UNCHANGED <<inputs, listener, disk, tmpPath, bucket, key, closes, targetPath,
                   targetFile, copied, exitStatus, stdout, child, shutdown, parsing>>

(***************************************************************************)
(* main, lines 177-193: --save given: parent directories, then the file    *)
(***************************************************************************)
\* a variant that records the --save path as the cleanup candidate
MkdirAllRecordsPath ==
    /\ Running /\ pc = "mkdir"
    /\ Did("mkdir")
    /\ targetPath' = saveFlag /\ tmpPath' = saveFlag
    /\ \E ok \in BOOLEAN :
          IF ok THEN /\ dirs' = dirs \cup Ancestors(Dir(saveFlag))
                     /\ pc' = "create" /\ UNCHANGED term
                ELSE Exit(1) /\ UNCHANGED <<pc, dirs>>
    /\ UNCHANGED <<inputs, listener, files, bucket, key, result, closes,
                   targetFile, copied, defers, exitStatus, stdout, child, shutdown, parsing>>
MkdirAll ==
    /\ Running /\ pc = "mkdir"
    /\ Did("mkdir")
    /\ targetPath' = saveFlag
    /\ \E ok \in BOOLEAN :
          IF ok THEN /\ dirs' = dirs \cup Ancestors(Dir(saveFlag))
                     /\ pc' = "create" /\ UNCHANGED term
                ELSE Exit(1) /\ UNCHANGED <<pc, dirs>>
    /\ UNCHANGED <<inputs, listener, files, tmpPath, bucket, key, result, closes,
                   targetFile, copied, defers, exitStatus, stdout, child, shutdown, parsing>>

\* os.Create: the file exists and is empty afterwards; an existing file keeps its mode
Created(path) ==
    Removed(path) \cup
    {[path |-> path, content |-> <<>>,
      mode |-> IF Exists(path) THEN FileAt(path).mode ELSE ModeCreate]}

Create ==
    /\ Running /\ pc = "create"
    /\ Did("create")
    /\ \E ok \in (IF Dir(targetPath) \in dirs THEN BOOLEAN ELSE {FALSE}) :
          IF ok THEN /\ files' = Created(targetPath)
                     /\ targetFile' = "open"
                     /\ pc' = "copy" /\ UNCHANGED term
                ELSE Exit(1) /\ UNCHANGED <<pc, files, targetFile>>
    /\ UNCHANGED <<inputs, listener, dirs, tmpPath, bucket, key, result, closes, targetPath,
                   copied, defers, exitStatus, stdout, child, shutdown, parsing>>

(***************************************************************************)
(* main, lines 194-208: no --save: a temp file named after the key's base; *)
(* its path goes to tmpPath; with --exec its removal is deferred           *)
(***************************************************************************)
\* os.CreateTemp: a new, empty file
CreatedTemp(path) == Removed(path) \cup {[path |-> path, content |-> <<>>, mode |-> ModeTemp]}

CreateTemp ==
    /\ Running /\ pc = "createtemp"
    /\ Did("createtemp")
    /\ \E ok \in BOOLEAN :
          IF ok THEN /\ files' = CreatedTemp(TempName(Base(key)))
                     /\ targetFile' = "open"
                     /\ pc' = "settmp" /\ UNCHANGED term
                ELSE Exit(1) /\ UNCHANGED <<pc, files, targetFile>>
    /\ UNCHANGED <<inputs, listener, dirs, tmpPath, bucket, key, result, closes, targetPath,
                   copied, defers, exitStatus, stdout, child, shutdown, parsing>>

DeferRemoveAlways(exec, ds) == <<"os.Remove">> \o ds
DeferRemove(exec, ds) == IF exec THEN <<"os.Remove">> \o ds ELSE ds

RecordTmpPath ==
    /\ Running /\ pc = "settmp"
    /\ \E name \in {TempName(Base(key))} : targetPath' = name /\ tmpPath' = name
    /\ defers' = DeferRemove(execFlag, defers)
    /\ pc' = "copy"
    /\ UNCHANGED <<inputs, listener, disk, bucket, key, result, closes, targetFile, copied,
                   exitStatus, stdout, log, child, shutdown, term, parsing>>

(***************************************************************************)
(* main, lines 210-213: io.Copy(targetFile, result), a byte at a time.     *)
(* Bytes written through the handle of a file that was removed meanwhile   *)
(* reach no path on disk.                                                  *)
(***************************************************************************)
LogCopy == log' = IF "copy" \in Range(log) THEN log ELSE Append(log, "copy")

WrittenInFront(path, byte) ==
    IF Exists(path)
    THEN Removed(path) \cup {[FileAt(path) EXCEPT !.content = <<byte>> \o @]}
    ELSE files
Written(path, byte) ==
    IF Exists(path)
    THEN Removed(path) \cup {[FileAt(path) EXCEPT !.content = Append(@, byte)]}
    ELSE files

CopyChunk ==
    /\ Running /\ pc = "copy"
    /\ copied < Len(object)
    /\ LogCopy
    /\ files' = Written(targetPath, object[copied + 1])
    /\ copied' = copied + 1
    /\ UNCHANGED <<inputs, listener, dirs, pc, tmpPath, bucket, key, result, closes, targetPath,
                   targetFile, defers, exitStatus, stdout, child, shutdown, term, parsing>>

\* a variant that deletes the partial file
CopyFailRollsBack ==
    /\ Running /\ pc = "copy"
    /\ LogCopy
    /\ Exit(1)
    /\ files' = Removed(targetPath)
    /\ UNCHANGED <<inputs, listener, dirs, pc, tmpPath, bucket, key, result, closes, targetPath,
                   targetFile, copied, defers, exitStatus, stdout, child, shutdown, parsing>>
CopyFail ==
    /\ Running /\ pc = "copy"
    /\ LogCopy
    /\ Exit(1)
    /\ UNCHANGED <<inputs, listener, disk, pc, tmpPath, bucket, key, result, closes, targetPath,
                   targetFile, copied, defers, exitStatus, stdout, child, shutdown, parsing>>

\* a variant that goes on before the stream is exhausted
CopyDoneEarly ==
    /\ Running /\ pc = "copy"
    /\ LogCopy
    /\ pc' = "chmod"
    /\ UNCHANGED <<inputs, listener, disk, tmpPath, bucket, key, result, closes, targetPath,
                   targetFile, copied, defers, exitStatus, stdout, child, shutdown, term, parsing>>
CopyDone ==
    /\ Running /\ pc = "copy"
    /\ copied = Len(object)
    /\ LogCopy
    /\ pc' = "chmod"
    /\ UNCHANGED <<inputs, listener, disk, tmpPath, bucket, key, result, closes, targetPath,
                   targetFile, copied, defers, exitStatus, stdout, child, shutdown, term, parsing>>

(***************************************************************************)
(* main, lines 215-223: chmod 0755 except on Windows, then close the file  *)
(***************************************************************************)
Chmodded(path) ==
    IF Exists(path)
    THEN Removed(path) \cup {[FileAt(path) EXCEPT !.mode = ModeExec]}
    ELSE files

Chmod ==
    /\ Running /\ pc = "chmod"
    /\ IF goos # "windows"
       THEN /\ Did("chmod")
            /\ \E ok \in BOOLEAN :
                  IF ok THEN files' = Chmodded(targetPath) /\ pc' = "close" /\ UNCHANGED term
                        ELSE Exit(1) /\ UNCHANGED <<pc, files>>
       ELSE pc' = "close" /\ UNCHANGED <<log, files, term>>
    /\ UNCHANGED <<inputs, listener, dirs, tmpPath, bucket, key, result, closes, targetPath,
                   targetFile, copied, defers, exitStatus, stdout, child, shutdown, parsing>>

CloseFile ==
    /\ Running /\ pc = "close"
    /\ Did("close")
    /\ targetFile' = "closed"
    /\ pc' = IF execFlag THEN "exec" ELSE "print"
    /\ UNCHANGED <<inputs, listener, disk, tmpPath, bucket, key, result, closes, targetPath,
                   copied, defers, exitStatus, stdout, child, shutdown, term, parsing>>

(***************************************************************************)
(* executeFile: the command by platform and extension, then cmd.Run()      *)
(***************************************************************************)
ExtBat == <<".","b","a","t">>
ExtCmd == <<".","c","m","d">>
ExtPs1 == <<".","p","s","1">>
ExtPy == <<".","p","y">>

\* a variant that compares the extension as written
CommandCaseSensitive(os, path) ==
    IF os = "windows"
    THEN LET ext == Ext(path)
         IN IF ext \in {ExtBat, ExtCmd} THEN [name |-> "cmd", flags |-> <<"/C">>, path |-> path]
            ELSE IF ext = ExtPs1 THEN [name |-> "powershell", flags |-> <<"-File">>, path |-> path]
            ELSE IF ext = ExtPy THEN [name |-> "python", flags |-> <<>>, path |-> path]
            ELSE [name |-> "direct", flags |-> <<>>, path |-> path]
    ELSE [name |-> "direct", flags |-> <<>>, path |-> path]
Command(os, path) ==
    IF os = "windows"
    THEN LET ext == ToLower(Ext(path))
         IN IF ext \in {ExtBat, ExtCmd} THEN [name |-> "cmd", flags |-> <<"/C">>, path |-> path]
            ELSE IF ext = ExtPs1 THEN [name |-> "powershell", flags |-> <<"-File">>, path |-> path]
            ELSE IF ext = ExtPy THEN [name |-> "python", flags |-> <<>>, path |-> path]
            ELSE [name |-> "direct", flags |-> <<>>, path |-> path]
    ELSE [name |-> "direct", flags |-> <<>>, path |-> path]

\* cmd.Run() can start the file: it exists and, where the mode decides, is executable
Runnable(path) == Exists(path) /\ (goos = "windows" \/ FileAt(path).mode = ModeExec)

\* what cmd.Run() can return (TRUE: an error): a file that could not be
\* started is an error; a started child may exit with any status
RunErrors(found) == IF found THEN BOOLEAN ELSE {TRUE}

\* main, lines 226-230: exitStatus after executeFile
StatusAfterExec(status, err) == IF err THEN 1 ELSE status
\* main, lines 234-237: exitStatus after shutdownSystem
StatusAfterShutdownReset(status, err) == IF err THEN 1 ELSE 0
StatusAfterShutdown(status, err) == IF err THEN 1 ELSE status

\* main, lines 225-227: the call of executeFile, up to the start of the child
ExecStart ==
    /\ Running /\ pc = "exec"
    /\ Did("exec")
    /\ exitStatus' = 0
    /\ child' = [state |-> "running", argv |-> Command(goos, targetPath),
                 found |-> Runnable(targetPath), err |-> FALSE]
    /\ pc' = "execwait"
    /\ UNCHANGED <<inputs, listener, disk, tmpPath, bucket, key, result, closes, targetPath,
                   targetFile, copied, defers, stdout, shutdown, term, parsing>>

\* main, lines 227-230: cmd.Run() returns
ExecReturn ==
    /\ Running /\ pc = "execwait"
    /\ \E err \in RunErrors(child.found) :
          /\ child' = [child EXCEPT !.state = "done", !.err = err]
          /\ exitStatus' = StatusAfterExec(exitStatus, err)
    /\ pc' = "postexec"
    /\ UNCHANGED <<inputs, listener, disk, tmpPath, bucket, key, result, closes, targetPath,
                   targetFile, copied, defers, stdout, log, shutdown, term, parsing>>

(***************************************************************************)
(* main, lines 232-234: the post-exec action                               *)
(***************************************************************************)
WantsShutdownOnSuccess(postExec, status) == postExec = "shutdown" /\ status = 0
WantsShutdownAlways(postExec, status) == TRUE
WantsShutdown(postExec, status) == postExec = "shutdown"

PostExec ==
    /\ Running /\ pc = "postexec"
    /\ IF WantsShutdown(postExecFlag, exitStatus)
       THEN /\ stdout' = Append(stdout, [kind |-> "countdown", text |-> <<>>])
            /\ Did("shutdown")
            /\ sd' = [state |-> "sleeping", delay |-> PostExecDelay, elapsed |-> 0,
                      debug |-> debugFlag, err |-> FALSE]
            /\ pc' = "shutdown"
       ELSE pc' = "exit" /\ UNCHANGED <<stdout, log, sd>>
    /\ UNCHANGED <<inputs, listener, disk, tmpPath, bucket, key, result, closes, targetPath,
                   targetFile, copied, defers, exitStatus, child, cmdRuns, term, parsing>>

(***************************************************************************)
(* shutdownSystem: sleep, build the command, print it (debug) or run it    *)
(***************************************************************************)
ShutdownArgs(os) ==
    IF os = "windows" THEN <<"shutdown", "/s", "/t", "0">>
                      ELSE <<"sudo", "shutdown", "-h", "now">>

\* time.Sleep(duration): one time unit passes
SdSleep ==
    /\ Running /\ sd.state = "sleeping"
    /\ sd.elapsed < sd.delay
    /\ sd' = [sd EXCEPT !.elapsed = @ + 1]
    /\ UNCHANGED <<inputs, listener, disk, flow, cmdRuns, term, parsing>>

DebugIgnored(debug) == FALSE
DebugMode(debug) == debug

\* lines 91-101, once the sleep is over
SdFire ==
    /\ Running /\ sd.state = "sleeping"
    /\ sd.elapsed = sd.delay
    /\ IF DebugMode(sd.debug)
       THEN /\ stdout' = Append(stdout, [kind |-> "debug", text |-> ShutdownArgs(goos)])
            /\ sd' = [sd EXCEPT !.state = "returned", !.err = FALSE]
            /\ UNCHANGED cmdRuns
       ELSE /\ cmdRuns' = cmdRuns + 1
            /\ \E err \in BOOLEAN : sd' = [sd EXCEPT !.state = "returned", !.err = err]
            /\ UNCHANGED stdout
    /\ UNCHANGED <<inputs, listener, disk, pc, tmpPath, bucket, key, result, closes, targetPath,
                   targetFile, copied, defers, exitStatus, log, child, term, parsing>>

\* main, lines 234-237: shutdownSystem has returned
ShutdownReturn ==
    /\ Running /\ pc = "shutdown" /\ sd.state = "returned"
    /\ exitStatus' = StatusAfterShutdown(exitStatus, sd.err)
    /\ pc' = "exit"
    /\ UNCHANGED <<inputs, listener, disk, tmpPath, bucket, key, result, closes, targetPath,
                   targetFile, copied, defers, stdout, log, child, shutdown, term, parsing>>

\* main, line 240: os.Exit(exitStatus)
ExitExec ==
    /\ Running /\ pc = "exit"
    /\ Exit(exitStatus)
    /\ UNCHANGED <<inputs, listener, disk, flow, shutdown, parsing>>

(***************************************************************************)
(* main, lines 241-244: print the path, return; the deferred calls run,    *)
(* last registered first, and the process ends with status 0               *)
(***************************************************************************)
PrintPath ==
    /\ Running /\ pc = "print"
    /\ Did("print")
    /\ stdout' = Append(stdout, [kind |-> "path", text |-> targetPath])
    /\ pc' = "return"
    /\ UNCHANGED <<inputs, listener, disk, tmpPath, bucket, key, result, closes, targetPath,
                   targetFile, copied, defers, exitStatus, child, shutdown, term, parsing>>

RunDefer ==
    /\ Running /\ pc = "return" /\ defers # <<>>
    /\ defers' = Tail(defers)
    /\ files' = IF Head(defers) = "os.Remove" THEN Removed(targetPath) ELSE files
    /\ result' = IF Head(defers) = "result.Close" THEN "closed" ELSE result
    /\ closes' = IF Head(defers) = "result.Close" THEN closes + 1 ELSE closes
    /\ cancelled' = IF Head(defers) = "cancel" THEN TRUE ELSE cancelled
    /\ UNCHANGED <<inputs, lpc, sigChan, nSignals, lread, dirs, pc, tmpPath, bucket, key,
                   targetPath, targetFile, copied, exitStatus, stdout, log, child, shutdown,
                   term, parsing>>

Return ==
    /\ Running /\ pc = "return" /\ defers = <<>>
    /\ Exit(0)
    /\ UNCHANGED <<inputs, listener, disk, flow, shutdown, parsing>>

(***************************************************************************)
(* The environment: an interrupt arrives.  signal.Notify does not block:   *)
(* a signal that finds the buffer of sigChan full is dropped.              *)
(***************************************************************************)
Interrupt ==
    /\ Running /\ lpc # "off"
    /\ nSignals < MaxSignals
    /\ nSignals' = nSignals + 1
    /\ sigChan' = 1
    /\ UNCHANGED <<inputs, lpc, cancelled, lread, disk, flow, shutdown, term, parsing>>

(***************************************************************************)
(* The signal goroutine, lines 119-126                                     *)
(***************************************************************************)
\* line 120: <-sigChan
LReceive ==
    /\ Running /\ lpc = "wait" /\ sigChan = 1
    /\ sigChan' = 0
    /\ lpc' = "check"
    /\ UNCHANGED <<inputs, nSignals, cancelled, lread, disk, flow, shutdown, term, parsing>>

\* the values a read of tmpPath can yield: main writes it and this goroutine
\* reads it with no synchronisation between them, so the read may see the
\* value written or the initial one
TmpPathSeen == {tmpPath, <<>>}

\* line 121: if tmpPath != ""
LCheck ==
    /\ Running /\ lpc = "check"
    /\ \E v \in TmpPathSeen :
          /\ lread' = v
          /\ lpc' = IF v # <<>> THEN "remove" ELSE "cancel"
    /\ UNCHANGED <<inputs, sigChan, nSignals, cancelled, disk, flow, shutdown, term, parsing>>

\* line 122: os.Remove(tmpPath)
LRemove ==
    /\ Running /\ lpc = "remove"
    /\ files' = Removed(lread)
    /\ lpc' = "cancel"
    /\ UNCHANGED <<inputs, sigChan, nSignals, cancelled, lread, dirs, flow, shutdown, term,
                   parsing>>

\* line 124: cancel()
LCancel ==
    /\ Running /\ lpc = "cancel"
    /\ cancelled' = TRUE
    /\ lpc' = "exit"
    /\ UNCHANGED <<inputs, sigChan, nSignals, lread, disk, flow, shutdown, term, parsing>>

\* line 125: os.Exit(1)
ListenerExitCode == 1
LExit ==
    /\ Running /\ lpc = "exit"
    /\ Exit(ListenerExitCode)
    /\ lpc' = "exited"
    /\ UNCHANGED <<inputs, sigChan, nSignals, cancelled, lread, disk, flow, shutdown, parsing>>

Next ==
    \/ Setup \/ ParseFlags \/ ParseURL \/ LoadConfig \/ Fetch
    \/ MkdirAll \/ Create \/ CreateTemp \/ RecordTmpPath
    \/ CopyChunk \/ CopyFail \/ CopyDone \/ Chmod \/ CloseFile
    \/ ExecStart \/ ExecReturn \/ PostExec
    \/ SdSleep \/ SdFire \/ ShutdownReturn \/ ExitExec
    \/ PrintPath \/ RunDefer \/ Return
    \/ Interrupt \/ LReceive \/ LCheck \/ LRemove \/ LCancel \/ LExit

Spec == Init /\ [][Next]_vars

(***************************************************************************)
(* parseS3URL called on its own, on locator strings made of a prefix and a *)
(* tail of at most MaxBody characters                                      *)
(***************************************************************************)
Prefixes == { <<"s","3",":","/","/">>, <<"S","3",":","/","/">>,
              <<"h","t","t","p",":","/","/">>, <<"s","3",":">>, <<>> }
BodyChars == {"b", "3", "/", ":", "?", " "}
Bodies == UNION { [1..n -> BodyChars] : n \in 0..MaxBody }
Locators == { pre \o body : pre \in Prefixes, body \in Bodies }

InitParse ==
    /\ goos = "linux" /\ saveFlag = <<>> /\ execFlag = FALSE /\ postExecFlag = ""
    /\ debugFlag = FALSE /\ args = <<>> /\ object = <<>>
    /\ InitMain
    /\ pIn \in Locators /\ pOut = NoParse

CallParse ==
    /\ pOut = NoParse
    /\ pOut' = parseS3URL(pIn)
    /\ UNCHANGED <<inputs, listener, disk, flow, shutdown, term, pIn>>

NextParse == CallParse

SpecParse == InitParse /\ [][NextParse]_vars

(***************************************************************************)
(* shutdownSystem called on its own (as TestShutdownSystemDebug does),     *)
(* with any delay up to MaxDelay and either value of debug                 *)
(***************************************************************************)
InitShutdown ==
    /\ goos \in {"linux", "windows"}
    /\ saveFlag = <<>> /\ execFlag = FALSE /\ postExecFlag = ""
    /\ debugFlag = FALSE /\ args = <<>> /\ object = <<>>
    /\ pc = "test" /\ lpc = "off" /\ sigChan = 0 /\ nSignals = 0
    /\ cancelled = FALSE /\ tmpPath = <<>> /\ lread = <<>>
    /\ bucket = <<>> /\ key = <<>>
    /\ result = "none" /\ closes = 0
    /\ targetPath = <<>> /\ targetFile = "none" /\ copied = 0
    /\ dirs = InitialDirs /\ files = {}
    /\ defers = <<>> /\ exitStatus = 0
    /\ exited = FALSE /\ exitCode = 0
    /\ stdout = <<>> /\ log = <<>>
    /\ child = NoChild /\ cmdRuns = 0
    /\ \E d \in 0..MaxDelay, dbg \in BOOLEAN :
          sd = [state |-> "sleeping", delay |-> d, elapsed |-> 0, debug |-> dbg, err |-> FALSE]
    /\ pIn = <<>> /\ pOut = NoParse

NextShutdown == SdSleep \/ SdFire

SpecShutdown == InitShutdown /\ [][NextShutdown]_vars

(***************************************************************************)
(* Properties                                                              *)
(***************************************************************************)
NoInterrupt == nSignals = 0
SignalReceived == lpc \notin {"off", "wait"}
ExecutorReturned == child.state = "done"

\* C1: in a run with --exec and no --save in which no interrupt fires, once
\* the Executor has returned the temporary file no longer exists when the
\* process has terminated.
C1_TempFileRemovedAfterExec ==
    (exited /\ NoInterrupt /\ execFlag /\ saveFlag = <<>> /\ ExecutorReturned)
        => ~Exists(targetPath)

\* C2: once the signal goroutine has received the interrupt, the process
\* terminates with status 1, never with status 0.
C2_InterruptExitsNonZero ==
    (exited /\ SignalReceived) => exitCode = 1

\* C3: once the signal goroutine has received the interrupt, the main flow
\* starts no further step (config load, fetch, directory or file creation,
\* copy, chmod, close, execution, shutdown, print).
C3_NoStepAfterSignal ==
    [][SignalReceived => log' = log]_vars

\* C4: after a successful fetch, when the process has terminated without an
\* interrupt, the fetch stream has been closed exactly once.
C4_StreamClosedOnce ==
    (exited /\ NoInterrupt /\ result # "none") => closes = 1

\* C5: in a run that reaches the Executor without an interrupt, the exit
\* status is 1 exactly when the Executor or the Shutdown Scheduler returned
\* an error, and 0 otherwise; and the Executor returns an error for a file
\* that was not there to be started.
C5_ExitStatus ==
    /\ (exited /\ NoInterrupt /\ ExecutorReturned)
          => exitCode = (IF child.err \/ sd.err THEN 1 ELSE 0)
    /\ (ExecutorReturned /\ ~child.found) => child.err
C5_Witness ==
    /\ exited /\ NoInterrupt /\ ExecutorReturned
    /\ child.err /\ sd.state = "returned" /\ ~sd.err
    /\ exitCode = 1

\* C6: with --exec and --post-exec shutdown, when the Executor has returned
\* an error and no interrupt fired, the Shutdown Scheduler was invoked, after
\* the Executor, before the process terminated.
C6_ShutdownAfterExecFailure ==
    (exited /\ NoInterrupt /\ postExecFlag = "shutdown" /\ ExecutorReturned /\ child.err)
        => /\ sd.state = "returned"
           /\ 0 < Index(log, "exec")
           /\ Index(log, "exec") < Index(log, "shutdown")
C6_Witness ==
    /\ exited /\ NoInterrupt /\ postExecFlag = "shutdown"
    /\ ExecutorReturned /\ child.err /\ sd.state = "returned"

\* C7: when --post-exec is given without --exec, or has a value other than
\* "shutdown", or there is not exactly one positional argument, the main flow
\* never gets past the validation: no config load, fetch, directory or file
\* creation, execution or shutdown has happened, and a terminated process
\* has status 1.
BadUsage ==
    \/ postExecFlag # "" /\ ~execFlag
    \/ postExecFlag # "" /\ postExecFlag # "shutdown"
    \/ Len(args) # 1
C7_ValidationBeforeIO ==
    BadUsage
        => /\ pc \in {"start", "flags"}
           /\ log = <<>>
           /\ result = "none" /\ targetFile = "none"
           /\ dirs = InitialDirs /\ files = {}
           /\ child.state = "none" /\ sd.state = "idle" /\ cmdRuns = 0
           /\ exited => exitCode = 1
C7_Witness ==
    BadUsage /\ postExecFlag = "shutdown" /\ exited /\ NoInterrupt /\ exitCode = 1

\* C8: when the fetch fails, Download has returned an error and no stream,
\* the process has terminated with status 1, and no destination directory or
\* file has been created.
FetchFailed == pc = "download" /\ "fetch" \in Range(log)
C8_FetchFailure ==
    FetchFailed
        => /\ result = "none"
           /\ exited /\ exitCode = 1
           /\ targetFile = "none"
           /\ dirs = InitialDirs /\ files = {}
C8_Witness ==
    FetchFailed /\ NoInterrupt /\ saveFlag # <<>> /\ exited

\* C9: shutdownSystem called with debug = true never runs the shutdown
\* command, has written exactly one "Debug: Would execute command:" line when
\* it has returned and none before the delay has elapsed, and returns nil.
DebugLines == Cardinality({ i \in 1..Len(stdout) : stdout[i].kind = "debug" })
C9_DebugShutdown ==
    sd.debug
        => /\ cmdRuns = 0
           /\ DebugLines = (IF sd.state = "returned" THEN 1 ELSE 0)
           /\ sd.state = "returned" => (~sd.err /\ sd.elapsed = sd.delay)
C9_Witness ==
    sd.debug /\ sd.state = "returned" /\ sd.delay = MaxDelay /\ DebugLines = 1

\* the parts C and K of a locator s3://C/K
S3Prefix == <<"s","3",":","/","/">>
IsS3Form(s) == HasPrefix(s, S3Prefix) /\ "/" \in Range(Drop(s, Len(S3Prefix)))
ContainerOf(s) == CutBefore(Drop(s, Len(S3Prefix)), "/")
KeyOf(s) == CutAfter(Drop(s, Len(S3Prefix)), "/")
BucketChars(c) ==
    \A i \in 1..Len(c) : IsLetter(c[i]) \/ c[i] \in Digits \/ c[i] \in {".", "-"}
NoQueryOrFragment(k) == \A i \in 1..Len(k) : k[i] \notin {"?", "#"}
Parsed == pOut # NoParse

WellFormed(s) == UrlParse(s).err = NoErr
SchemeOf(s) == UrlParse(s).Scheme
HttpPrefix == <<"h","t","t","p",":","/","/">>
ParseFailed == pOut.err \in {ErrInvalidURL, ErrNotS3}

\* C11: parseS3URL fails exactly when its input is not a well-formed URL or
\* the URL's scheme is not "s3"; a string url.Parse rejects gives the
\* "invalid S3 URL" error, a well-formed URL with another scheme (http://...)
\* or with no scheme gives the "not an S3 URL" error, and on every failure
\* the container and the key returned are empty.
C11_FailsExactlyOnBadURLOrScheme ==
    Parsed
        => \E wf \in {WellFormed(pIn)} : \E scheme \in {SchemeOf(pIn)} :
              /\ (pOut.err # NoErr) <=> (~wf \/ scheme # S3)
              /\ ~wf => pOut.err = ErrInvalidURL
              /\ (wf /\ scheme # S3) => pOut.err = ErrNotS3
              /\ (wf /\ HasPrefix(pIn, HttpPrefix)) => pOut.err = ErrNotS3
              /\ (wf /\ ":" \notin Range(pIn)) => pOut.err = ErrNotS3
              /\ pOut.err # NoErr => (ParseFailed /\ pOut.bucket = <<>> /\ pOut.key = <<>>)
C11_Witness ==
    /\ Parsed /\ HasPrefix(pIn, HttpPrefix) /\ Len(pIn) > Len(HttpPrefix) + 2
    /\ WellFormed(pIn) /\ UrlParse(pIn).Host # <<>> /\ UrlParse(pIn).Path # <<>>
    /\ pOut.err = ErrNotS3 /\ pOut.bucket = <<>> /\ pOut.key = <<>>

\* the Target Writer has completed: the file was created, written, made
\* executable where that applies, and closed (line 223)
WriterCompleted == targetFile = "closed"
\* the signal goroutine has run os.Remove on the path it read
ListenerRemoved == lpc \in {"cancel", "exit", "exited"} /\ lread # <<>>
NestedSavePath == <<"n","/","d","/","f",".","p","y">>

C12_NestedReached ==
    /\ WriterCompleted /\ saveFlag = NestedSavePath
    /\ <<"n">> \in dirs /\ <<"n","/","d">> \in dirs
    /\ Exists(saveFlag) /\ FileAt(saveFlag).content = object /\ Len(object) = MaxBytes

\* the lines main has printed with fmt.Println(targetPath)
PathLines == { i \in 1..Len(stdout) : stdout[i].kind = "path" }
\* main has returned from its last statement (line 244) and the process ended
ReturnedFromMain == exited /\ pc = "return" /\ defers = <<>>

\* C13: in a run without --exec in which every step succeeds and no
\* interrupt fires, the process prints the artifact's path to standard
\* output exactly once and terminates with status 0, the artifact (temporary
\* or at the --save path) is still on disk with its full content, and
\* neither the Executor nor the Shutdown Scheduler was invoked; without
\* --exec they are not invoked in any state.
C13_NoExecPrintsAndKeeps ==
    /\ (ReturnedFromMain /\ NoInterrupt /\ ~execFlag)
          => /\ exitCode = 0
             /\ Cardinality(PathLines) = 1
             /\ \A i \in PathLines : stdout[i].text = targetPath
             /\ targetPath = (IF saveFlag # <<>> THEN saveFlag ELSE TempName(Base(key)))
             /\ Exists(targetPath) /\ FileAt(targetPath).content = object
    /\ ~execFlag
          => /\ child.state = "none" /\ sd.state = "idle" /\ cmdRuns = 0
             /\ "exec" \notin Range(log) /\ "shutdown" \notin Range(log)
    /\ (NoInterrupt /\ ~execFlag /\ PathLines # {}) => pc = "return"
C13_Witness ==
    /\ ReturnedFromMain /\ NoInterrupt /\ ~execFlag /\ saveFlag = <<>>
    /\ exitCode = 0 /\ Len(object) = MaxBytes
    /\ stdout = << [kind |-> "path", text |-> targetPath] >>
    /\ Exists(targetPath) /\ FileAt(targetPath).content = object
    /\ child.state = "none" /\ sd.state = "idle"

\* C14: the cleanup candidate is recorded if and only if the destination is
\* temporary: tmpPath is always empty or the path of the temporary file of
\* this run, it is empty in a run with --save and equal to targetPath once a
\* temporary destination was chosen; it is written at most once; and in a
\* run with --save the named file, once created, is never deleted by the
\* program (signal goroutine or main, with or without --exec).
C14_CandidateOnlyIfTemporary ==
    /\ [](/\ tmpPath \in {<<>>, TempName(Base(key))}
          /\ lread \in {<<>>, TempName(Base(key))}
          /\ saveFlag # <<>> => (tmpPath = <<>> /\ lread = <<>>)
          /\ (saveFlag = <<>> /\ targetPath # <<>>) => tmpPath = targetPath
          /\ (saveFlag # <<>> /\ targetFile # "none") => Exists(saveFlag))
    /\ [][tmpPath' # tmpPath => tmpPath = <<>>]_vars
    /\ [][(saveFlag # <<>> /\ Exists(saveFlag)) => Exists(saveFlag)']_vars
C14_Witness ==
    /\ saveFlag # <<>> /\ execFlag /\ ExecutorReturned
    /\ exited /\ lpc = "exited" /\ tmpPath = <<>>
    /\ Exists(saveFlag)
C14_TempRecorded ==
    saveFlag = <<>> /\ tmpPath = targetPath /\ tmpPath # <<>> /\ lread = tmpPath

\* the signal goroutine's positions, in program order
LRank(l) ==
    CASE l = "off" -> 0 [] l = "wait" -> 1 [] l = "check" -> 2 [] l = "remove" -> 3
      [] l = "cancel" -> 4 [] l = "exit" -> 5 [] l = "exited" -> 6

\* the signal goroutine acts once and in order: it never goes back, it
\* deletes at most once and only the path it read, a delete of an absent
\* path changes nothing, and it ends the process only after the delete
\* attempt (when it made one) and cancel()
C15_OnceInOrder ==
    /\ [][LRank(lpc') >= LRank(lpc)]_vars
    /\ [][(lpc' # lpc /\ lpc # "check") => LRank(lpc') = LRank(lpc) + 1]_vars
    /\ [][(lpc = "check" /\ lpc' # lpc) => (lpc' = "remove" <=> lread' # <<>>)
                                          /\ lpc' \in {"remove", "cancel"}]_vars
    /\ [][(lpc = "remove" /\ lpc' # lpc)
             => /\ files' = { f \in files : f.path # lread }
                /\ ~Exists(lread) => files' = files
                /\ stdout' = stdout /\ ~exited']_vars
    /\ [][(lpc' = "exited" /\ lpc # "exited") => (lpc = "exit" /\ exited' /\ exitCode' = 1)]_vars
    /\ [](lpc \in {"cancel", "exit", "exited"} => sigChan + 1 <= nSignals)

\* C15: on the interrupt path the signal goroutine acts at most once and in
\* a fixed order: it deletes the recorded temporary path if and only if one
\* has been recorded when it looks (deleting an absent path changes nothing
\* and is not reported), terminates the process only after that delete
\* attempt, and later signals cause no second cleanup.
C15_DeletesIffRecorded ==
    /\ C15_OnceInOrder
    /\ [][(lpc = "check" /\ lpc' # lpc) => (lpc' = "remove" <=> tmpPath # <<>>)]_vars

\* io.Copy returned an error and main left through os.Exit(1) (lines 210-213)
CopyFailed == exited /\ pc = "copy" /\ NoInterrupt

C16_SavedPartialReached ==
    /\ CopyFailed /\ saveFlag # <<>> /\ 0 < copied /\ copied < Len(object)
    /\ Exists(saveFlag)

\* executeFile has been called
ExecutorInvoked == child.state # "none"
\* how often op occurs in the log
Times(op) == Cardinality({ i \in 1..Len(log) : log[i] = op })

\* C17: the Executor is invoked only on a completed artifact: whenever
\* executeFile has been called, --exec was given and the call was preceded,
\* in this order, by the full copy of the stream into the target file, on
\* non-Windows the successful chmod to 0755, and the close of the file
\* handle (so the file, unless the signal goroutine has deleted it, holds the
\* whole object and can be started); it is never called in a run that ended
\* in a fetch, create, copy or chmod failure.
C17_ExecOnlyOnCompletedArtifact ==
    /\ ExecutorInvoked
          => /\ execFlag
             /\ pc \in {"execwait", "postexec", "shutdown", "exit"}
             /\ result = "open" /\ copied = Len(object) /\ targetFile = "closed"
             /\ Times("exec") = 1 /\ Times("copy") = 1 /\ Times("close") = 1
             /\ Index(log, "copy") < Index(log, "close")
             /\ Index(log, "close") < Index(log, "exec")
             /\ IF goos # "windows"
                THEN /\ Times("chmod") = 1
                     /\ Index(log, "copy") < Index(log, "chmod")
                     /\ Index(log, "chmod") < Index(log, "close")
                ELSE Times("chmod") = 0
             /\ ~ListenerRemoved
                   => /\ Exists(targetPath) /\ FileAt(targetPath).content = object
                      /\ goos # "windows" => FileAt(targetPath).mode = ModeExec
                      /\ child.found
    /\ ExecutorInvoked <=> "exec" \in Range(log)
    /\ (exited /\ pc \in {"flags", "parse", "config", "download", "mkdir", "create",
                          "createtemp", "settmp", "copy", "chmod", "close", "print", "return"})
          => ~ExecutorInvoked
C17_Witness ==
    /\ child.state = "running" /\ goos = "linux" /\ NoInterrupt /\ execFlag
    /\ Len(object) = MaxBytes /\ child.found
    /\ log = <<"config", "fetch", "createtemp", "copy", "chmod", "close", "exec">>

\* shutdownSystem has been called
ShutdownInvoked == sd.state # "idle"

\* C18: the Shutdown Scheduler is invoked at most once per process, with no
\* retry after a failure (the shutdown command runs at most once), and only
\* when --exec was given, --post-exec is "shutdown" and the Executor has
\* already returned; it is never invoked before or instead of the execution
\* and never in a run that ended in a fatal error before the Executor.
C18_ShutdownAtMostOnceAfterExec ==
    /\ Times("shutdown") <= 1 /\ cmdRuns <= 1
    /\ ShutdownInvoked <=> Times("shutdown") = 1
    /\ cmdRuns = 1 => sd.state = "returned"
    /\ ShutdownInvoked
          => /\ execFlag /\ postExecFlag = "shutdown"
             /\ ExecutorReturned
             /\ 0 < Index(log, "exec") /\ Index(log, "exec") < Index(log, "shutdown")
             /\ pc \in {"shutdown", "exit"}
             /\ sd.delay = PostExecDelay /\ sd.debug = debugFlag
    /\ (exited /\ ~ExecutorReturned) => (~ShutdownInvoked /\ cmdRuns = 0)
C18_Witness ==
    /\ exited /\ NoInterrupt /\ pc = "exit"
    /\ sd.state = "returned" /\ sd.err /\ cmdRuns = 1 /\ Times("shutdown") = 1
    /\ exitCode = 1

\* signal.Notify has registered sigChan and the signal goroutine was started
HandlerArmed == lpc # "off"
NetworkOrDiskWork == {"config", "fetch", "mkdir", "create", "createtemp", "copy", "chmod"}

\* C19: the interrupt handler is armed (signal.Notify called, the signal
\* goroutine started) before the main flow does any network or filesystem
\* work: while it is not armed, no config load, fetch, directory creation or
\* file creation has happened, and none happens in a step taken from a
\* state where it is not armed.
C19_ArmedBeforeAnyWork ==
    /\ [](~HandlerArmed
            => /\ pc = "start" /\ log = <<>>
               /\ result = "none" /\ targetFile = "none"
               /\ dirs = InitialDirs /\ files = {})
    /\ []((Range(log) \cap NetworkOrDiskWork # {}) => HandlerArmed)
    /\ [][(log' # log \/ dirs' # dirs \/ files' # files \/ result' # result)
             => HandlerArmed]_vars
C19_Witness ==
    /\ HandlerArmed /\ lpc = "check" /\ pc = "copy" /\ saveFlag # <<>>
    /\ log = <<"config", "fetch", "mkdir", "create">>
    /\ Exists(saveFlag)

(***************************************************************************)
(* executeFile called on its own, on either platform, with paths of every  *)
(* extension the switch names, in lower and mixed case, of other           *)
(* extensions and of none; the file is there or not                        *)
(***************************************************************************)
ExecDirs == { <<"w","/">>, <<"a",".","b","a","t","/">> }
ExecNames == { <<"f">>, <<"f",".","b","a","t">>, <<"f",".","B","A","T">>,
               <<"f",".","c","m","d">>, <<"f",".","C","m","d">>,
               <<"f",".","p","s","1">>, <<"f",".","P","s","1">>,
               <<"f",".","p","y">>, <<"f",".","P","Y">>,
               <<"f",".","e","x","e">>, <<"f",".","s","h">>,
               <<"f",".","b","a","t",".","t","x","t">>,
               <<"f",".","t","x","t",".","p","y">>,
               <<"b","a","t">>, <<"f",".">> }
ExecPaths == { d \o n : d \in ExecDirs, n \in ExecNames }

InitExec ==
    /\ goos \in {"linux", "windows"}
    /\ saveFlag = <<>> /\ execFlag = TRUE /\ postExecFlag = ""
    /\ debugFlag = FALSE /\ args = <<>> /\ object = <<>>
    /\ pc = "exec" /\ lpc = "off" /\ sigChan = 0 /\ nSignals = 0
    /\ cancelled = FALSE /\ tmpPath = <<>> /\ lread = <<>>
    /\ bucket = <<>> /\ key = <<>>
    /\ result = "none" /\ closes = 0
    /\ targetPath \in ExecPaths /\ targetFile = "none" /\ copied = 0
    /\ dirs = InitialDirs
    /\ files \in { {}, {[path |-> targetPath, content |-> <<>>, mode |-> ModeExec]} }
    /\ defers = <<>> /\ exitStatus = 0
    /\ exited = FALSE /\ exitCode = 0
    /\ stdout = <<>> /\ log = <<>>
    /\ child = NoChild /\ sd = NoShutdown /\ cmdRuns = 0
    /\ pIn = <<>> /\ pOut = NoParse

NextExec == ExecStart \/ ExecReturn

SpecExec == InitExec /\ [][NextExec]_vars

\* the command lines of the claim
ViaShell(path) == [name |-> "cmd", flags |-> <<"/C">>, path |-> path]
ViaPowerShell(path) == [name |-> "powershell", flags |-> <<"-File">>, path |-> path]
ViaPython(path) == [name |-> "python", flags |-> <<>>, path |-> path]
Directly(path) == [name |-> "direct", flags |-> <<>>, path |-> path]
\* the path, lower-cased, ends in the extension
EndsIn(path, ext) == HasSuffix(ToLower(path), ext)

\* C20: the Executor's dispatch is a total function of the platform and the
\* lower-cased file extension: on non-Windows every path is invoked directly;
\* on Windows a path ending in .bat or .cmd is run as cmd /C path, in .ps1 as
\* powershell -File path, in .py as python path, and any other extension or
\* none is invoked directly; the extension is compared case-insensitively.
C20_Dispatch ==
    ExecutorInvoked
        => child.argv =
              (IF goos # "windows" THEN Directly(targetPath)
               ELSE IF EndsIn(targetPath, ExtBat) \/ EndsIn(targetPath, ExtCmd)
                    THEN ViaShell(targetPath)
               ELSE IF EndsIn(targetPath, ExtPs1) THEN ViaPowerShell(targetPath)
               ELSE IF EndsIn(targetPath, ExtPy) THEN ViaPython(targetPath)
               ELSE Directly(targetPath))
C20_Witness ==
    /\ ExecutorInvoked /\ goos = "windows"
    /\ Ext(targetPath) = <<".","P","s","1">>
    /\ child.argv = ViaPowerShell(targetPath)

\* the process was ended by the signal goroutine's os.Exit(1)
ExitedByListener == exited /\ lpc = "exited"
\* the temporary file os.CreateTemp made in this run is on disk
TempFileOnDisk == saveFlag = <<>> /\ Exists(TempName(Base(key)))

\* C21: no temporary artifact survives an interrupt: whenever the process
\* has terminated through the signal goroutine, no temporary file made by
\* this run is on disk, whichever way the goroutine's steps interleave with
\* the main flow (also when the signal arrives between the creation of the
\* temporary file and the recording of its path, or during the copy).
C21_NoTempFileSurvivesInterrupt ==
    ExitedByListener => ~TempFileOnDisk

\* the same, for an interrupt whose check of tmpPath comes after the path
\* was recorded and sees the value recorded: the file is gone at termination
C21_RemovedWhenSeen ==
    (ExitedByListener /\ lread # <<>>) => ~TempFileOnDisk

=============================================================================
